---------------------------- MODULE Spec2Model ----------------------------
(***************************************************************************)
(* A model of mygrep (mygrep.c, pattern.c, pattern.h): the recursive       *)
(* descent pattern parser, the Pattern objects' match functions and the    *)
(* main() driver that matches every input line against the parsed pattern. *)
(*                                                                         *)
(* C strings are sequences of one-character strings; the terminating NUL   *)
(* is what CharAt returns at and past the end.  A marks array (before,     *)
(* after, midMarks) is a function from 0..len to BOOLEAN.  Reading memory  *)
(* that was never written (malloc'ed or stack storage) yields either       *)
(* truth value, so a match function is modelled by the SET of after arrays *)
(* it can leave behind.                                                    *)
(***************************************************************************)
EXTENDS Integers, Sequences, FiniteSets, TLC

(* ------------------------------ bounds -------------------------------- *)
MaxPatLen  == 3     \* longest pattern string given as argv[1]
MaxLineLen == 2     \* longest line content (not counting its terminator)
MaxLines   == 2     \* most lines read from the input in one run
MaxMatchLen == 3    \* longest string a single match call is tried on

(* ------------------------- program constants -------------------------- *)
ONE_ARG  == 2
TWO_ARGS == 3

\* main, line 235: bool after[sizeof(before) / sizeof(before[0])]; before is
\* a bool *, so the array has sizeof(bool *) / sizeof(bool) entries, 8 where
\* a pointer is 8 bytes, whatever the length of the line.
AfterEntries == 8

NUL == "NUL"
NL  == "\n"

\* Characters a pattern string is drawn from, and characters of a line.
PatChars  == {"a", ".", "^", "$", "|", "(", ")", "[", "]", "*"}
LineChars == {"a", "b"}

RECURSIVE SeqsUpTo(_, _)
SeqsUpTo(S, n) ==
  IF n = 0 THEN {<<>>}
  ELSE LET shorter == SeqsUpTo(S, n - 1)
       IN  shorter \cup {Append(s, c) : s \in shorter, c \in S}

Patterns == SeqsUpTo(PatChars, MaxPatLen)
Contents == SeqsUpTo(LineChars, MaxLineLen)

\* What getline() can hand back: a line with its terminator, or a last,
\* non-empty line that the end of the input cuts short.
TerminatedLines   == {Append(l, NL) : l \in Contents}
UnterminatedLines == Contents \ {<<>>}

\* A last line of as many characters as the after array has entries.
LongLines == {[i \in 1..AfterEntries |-> "a"]}

\* str[pos] of a NUL-terminated C string.
CharAt(str, pos) == IF pos < Len(str) THEN str[pos + 1] ELSE NUL

\* strlen(str)
strlen(str) == Len(str)

\* Every marks array over the locations 0..len.
BoolArrays(len) == [0..len -> BOOLEAN]

(* ----------------------------- pattern.c ------------------------------ *)
NULL == [tag |-> "NULL"]

makeSymbolPattern(sym)      == [tag |-> "Symbol", sym |-> sym]
makeDotPattern(sym)         == [tag |-> "Dot", sym |-> sym]
makeStartAnchorPattern(sym) == [tag |-> "StartAnchor", sym |-> sym]
makeEndAnchorPattern(sym)   == [tag |-> "EndAnchor", sym |-> sym]
makeConcatenationPattern(p1, p2) == [tag |-> "Concatenation", p1 |-> p1, p2 |-> p2]
makeAlternationPattern(p1, p2)   == [tag |-> "Alternation", p1 |-> p1, p2 |-> p2]
makeStarPattern(p)  == [tag |-> "Star", p |-> p]
makePlusPattern(p)  == [tag |-> "Plus", p |-> p]
makeQMarkPattern(p) == [tag |-> "QMark", p |-> p]

\* for (i = 0; str[i]; i++) if (marks[i]) return true;  return false;
\* marks[strlen(str)] is never looked at.
isMatch(str, marks) == \E i \in 0..(strlen(str) - 1) : marks[i]

\* matchSymbolPattern without its first statement: after[0] keeps what the
\* array held.
matchSymbolPatternKeepFirst(pat, len, str, before, after) ==
  [i \in 0..len |-> IF i = 0 THEN after[0]
                    ELSE before[i - 1] /\ CharAt(str, i - 1) = pat.sym]

\* after[0] = false; after[i + 1] = before[i] && str[i] == sym, i < len.
matchSymbolPattern(pat, len, str, before, after) ==
  [i \in 0..len |-> IF i = 0 THEN FALSE
                    ELSE before[i - 1] /\ CharAt(str, i - 1) = pat.sym]

\* after[0] = false; after[i + 1] = before[i] && str[i], i < len.
matchDotPattern(pat, len, str, before, after) ==
  [i \in 0..len |-> IF i = 0 THEN FALSE
                    ELSE before[i - 1] /\ CharAt(str, i - 1) # NUL]

\* after[0] = true; nothing else of after is written.
matchStartAnchorPattern(pat, len, str, before, after) ==
  [after EXCEPT ![0] = TRUE]

\* after[0] = false; after[len] = true;
\* if (before[len - 1] == false) for (i = 0; i < len - 1; i++) after[i] = false;
\* With len = 0 the test reads before[-1], and the loop writes nothing
\* whichever value it reads.
matchEndAnchorPattern(pat, len, str, before, after) ==
  LET a1 == [[after EXCEPT ![0] = FALSE] EXCEPT ![len] = TRUE]
  IN  IF len >= 1 /\ before[len - 1] = FALSE
      THEN [i \in 0..len |-> IF i < len - 1 THEN FALSE ELSE a1[i]]
      ELSE a1

\* The body is empty: after is left as it was.  makeStarPattern,
\* makePlusPattern and makeQMarkPattern all install this function.
matchStarPattern(pat, len, str, before, after) == after

\* pat->match(pat, len, str, before, after) for a before array that is one
\* of befores and an after array that holds one of afters when the call is
\* made: the after arrays the call can leave.  matchConcatenationPattern's
\* midMarks is uninitialized stack storage, so p1 is matched into any
\* array, and p2 is matched from whatever p1 left there.
\* matchAlternationPattern matches p2, from the same before and into the
\* same after array, only when isMatch finds no mark left by p1.
RECURSIVE match(_, _, _, _, _)
match(pat, len, str, befores, afters) ==
  CASE pat.tag = "Symbol" ->
         {matchSymbolPattern(pat, len, str, b, a) : b \in befores, a \in afters}
    [] pat.tag = "Dot" ->
         {matchDotPattern(pat, len, str, b, a) : b \in befores, a \in afters}
    [] pat.tag = "StartAnchor" ->
         {matchStartAnchorPattern(pat, len, str, b, a) : b \in befores, a \in afters}
    [] pat.tag = "EndAnchor" ->
         {matchEndAnchorPattern(pat, len, str, b, a) : b \in befores, a \in afters}
    [] pat.tag = "Concatenation" ->
         LET midMarks == match(pat.p1, len, str, befores, BoolArrays(len))
         IN  match(pat.p2, len, str, midMarks, afters)
    [] pat.tag = "Alternation" ->
         UNION { LET after1 == match(pat.p1, len, str, {b}, afters)
                 IN  {a \in after1 : isMatch(str, a)} \cup
                     match(pat.p2, len, str, {b}, {a \in after1 : ~isMatch(str, a)}) :
                   b \in befores }
    [] pat.tag \in {"Star", "Plus", "QMark"} ->
         {matchStarPattern(pat, len, str, b, a) : b \in befores, a \in afters}

\* Whether the same call can write after[i] for an i that an after array of
\* entries entries does not have.  matchSymbolPattern and matchDotPattern
\* write after[0..len], matchEndAnchorPattern after[0] and after[len],
\* matchStartAnchorPattern after[0] only and matchStarPattern nothing;
\* matchConcatenationPattern hands after to p2 alone (midMarks has len + 1
\* entries); matchAlternationPattern hands it to p1, and to p2 when isMatch
\* finds no mark left by p1.
RECURSIVE writesBeyond(_, _, _, _, _, _)
writesBeyond(pat, len, str, befores, afters, entries) ==
  CASE pat.tag \in {"Symbol", "Dot", "EndAnchor"} -> len >= entries
    [] pat.tag = "StartAnchor" -> 0 >= entries
    [] pat.tag = "Concatenation" ->
         LET midMarks == match(pat.p1, len, str, befores, BoolArrays(len))
         IN  writesBeyond(pat.p2, len, str, midMarks, afters, entries)
    [] pat.tag = "Alternation" ->
         \/ writesBeyond(pat.p1, len, str, befores, afters, entries)
         \/ \E b \in befores :
              LET after1 == match(pat.p1, len, str, {b}, afters)
              IN  /\ \E a \in after1 : ~isMatch(str, a)
                  /\ writesBeyond(pat.p2, len, str, {b},
                                  {a \in after1 : ~isMatch(str, a)}, entries)
    [] pat.tag \in {"Star", "Plus", "QMark"} -> FALSE

(* ------------------------------ mygrep.c ------------------------------ *)
\* strchr(".^$*?+|()[{", c) also finds the terminating NUL.
ordinary(c) == c \notin {".", "^", "$", "*", "?", "+", "|", "(", ")", "[", "{", NUL}

\* A parse function's outcome: the pattern built and the cursor, or
\* ok = FALSE when invalidPattern() ended the program.
invalidPattern(pos) == [ok |-> FALSE, pat |-> NULL, pos |-> pos]
Parsed(pat, pos)    == [ok |-> TRUE, pat |-> pat, pos |-> pos]

parseAtomicPattern(str, pos) ==
  LET c == CharAt(str, pos)
  IN  IF ordinary(c) THEN Parsed(makeSymbolPattern(c), pos + 1)
      ELSE IF c = "." THEN Parsed(makeDotPattern(c), pos + 1)
      ELSE IF c = "^" THEN Parsed(makeStartAnchorPattern(c), pos + 1)
      ELSE IF c = "$" THEN Parsed(makeEndAnchorPattern(c), pos + 1)
      ELSE invalidPattern(pos)

parseRepetition(str, pos) == parseAtomicPattern(str, pos)

\* while (str[*pos] && str[*pos] != '|' && str[*pos] != ')') ...
RECURSIVE ConcatenationLoop(_, _)
ConcatenationLoop(str, r1) ==
  IF CharAt(str, r1.pos) \notin {NUL, "|", ")"}
  THEN LET r2 == parseRepetition(str, r1.pos)
       IN  IF ~r2.ok THEN r2
           ELSE ConcatenationLoop(str,
                  Parsed(makeConcatenationPattern(r1.pat, r2.pat), r2.pos))
  ELSE r1

parseConcatenation(str, pos) ==
  LET r1 == parseRepetition(str, pos)
  IN  IF ~r1.ok THEN r1 ELSE ConcatenationLoop(str, r1)

\* while (str[*pos] && str[*pos] == '|') { (*pos)++; ... }
RECURSIVE AlternationLoop(_, _)
AlternationLoop(str, r1) ==
  IF CharAt(str, r1.pos) = "|"
  THEN LET r2 == parseConcatenation(str, r1.pos + 1)
       IN  IF ~r2.ok THEN r2
           ELSE AlternationLoop(str,
                  Parsed(makeAlternationPattern(r1.pat, r2.pat), r2.pos))
  ELSE r1

parseAlternation(str, pos) ==
  LET r1 == parseConcatenation(str, pos)
  IN  IF ~r1.ok THEN r1 ELSE AlternationLoop(str, r1)

(* ---------------- the documented syntax and semantics ------------------ *)
\* README.md, Matching Rules: the grammar of valid patterns.  Each Doc...
\* operator gives the position after the longest piece of str, starting at
\* pos, that its rule derives, or -1 when there is none.
RepetitionOps == {"*", "+", "?"}

\* The position of the ']' closing a class whose body starts at pos.
RECURSIVE DocClassEnd(_, _)
DocClassEnd(str, pos) ==
  LET c == CharAt(str, pos)
  IN  IF c = "]" THEN pos
      ELSE IF c \in {NUL, NL} THEN -1
      ELSE DocClassEnd(str, pos + 1)

RECURSIVE DocSkipOps(_, _)
DocSkipOps(str, pos) ==
  IF CharAt(str, pos) \in RepetitionOps THEN DocSkipOps(str, pos + 1) ELSE pos

RECURSIVE DocAtomic(_, _), DocRepetition(_, _), DocConcatenation(_, _),
          DocConcatenationRest(_, _), DocAlternation(_, _),
          DocAlternationRest(_, _)
DocAtomic(str, pos) ==
  LET c == CharAt(str, pos)
  IN  IF ordinary(c) \/ c \in {".", "^", "$"} THEN pos + 1
      ELSE IF c = "["
           THEN LET e == DocClassEnd(str, pos + 1)
                IN  IF e = -1 THEN -1 ELSE e + 1
      ELSE IF c = "("
           THEN LET e == DocAlternation(str, pos + 1)
                IN  IF e # -1 /\ CharAt(str, e) = ")" THEN e + 1 ELSE -1
      ELSE -1

DocRepetition(str, pos) ==
  LET e == DocAtomic(str, pos)
  IN  IF e = -1 THEN -1 ELSE DocSkipOps(str, e)

DocConcatenationRest(str, pos) ==
  IF CharAt(str, pos) \notin {NUL, "|", ")"}
  THEN LET e == DocRepetition(str, pos)
       IN  IF e = -1 THEN -1 ELSE DocConcatenationRest(str, e)
  ELSE pos

DocConcatenation(str, pos) ==
  LET e == DocRepetition(str, pos)
  IN  IF e = -1 THEN -1 ELSE DocConcatenationRest(str, e)

DocAlternationRest(str, pos) ==
  IF CharAt(str, pos) = "|"
  THEN LET e == DocConcatenation(str, pos + 1)
       IN  IF e = -1 THEN -1 ELSE DocAlternationRest(str, e)
  ELSE pos

DocAlternation(str, pos) ==
  LET e == DocConcatenation(str, pos)
  IN  IF e = -1 THEN -1 ELSE DocAlternationRest(str, e)

\* A valid pattern is one the grammar derives as a whole.
DocValid(str) == DocAlternation(str, 0) = Len(str)

\* README.md, Matching Rules: the locations of line (of length n) at which
\* a match of pat can end when it starts at one of the locations in S.
RECURSIVE DocClosure(_, _, _), DocReach(_, _, _)
DocReach(p, line, S) ==
  LET n == Len(line)
  IN  CASE p.tag = "Symbol"      -> {i + 1 : i \in {j \in S : j < n /\ line[j + 1] = p.sym}}
        [] p.tag = "Dot"         -> {i + 1 : i \in {j \in S : j < n}}
        [] p.tag = "StartAnchor" -> S \cap {0}
        [] p.tag = "EndAnchor"   -> S \cap {n}
        [] p.tag = "CharClass"   -> {i + 1 : i \in {j \in S : j < n /\ line[j + 1] \in p.set}}
        [] p.tag = "Concatenation" -> DocReach(p.p2, line, DocReach(p.p1, line, S))
        [] p.tag = "Alternation" -> DocReach(p.p1, line, S) \cup DocReach(p.p2, line, S)
        [] p.tag = "Star"        -> DocClosure(p.p, line, S)
        [] p.tag = "Plus"        -> DocClosure(p.p, line, DocReach(p.p, line, S))
        [] p.tag = "QMark"       -> S \cup DocReach(p.p, line, S)

DocClosure(p, line, S) ==
  LET T == S \cup DocReach(p, line, S)
  IN  IF T = S THEN S ELSE DocClosure(p, line, T)

\* The line without its terminator, and whether it holds a substring that
\* pat matches.
Content(line) ==
  IF Len(line) > 0 /\ line[Len(line)] = NL THEN SubSeq(line, 1, Len(line) - 1)
  ELSE line

DocContainsMatch(p, line) == DocReach(p, line, 0..Len(line)) # {}

(* --------------------------- state of main() --------------------------- *)
VARIABLES
  argc,       \* number of command line words, the program's name included
  argv1,      \* argv[1], the pattern string
  fileOpens,  \* whether fopen(argv[2], "r") succeeds (argc = TWO_ARGS)
  pc,         \* where main() is
  err,        \* what was written to stderr
  status,     \* the exit status once the program has ended
  pat,        \* the parsed Pattern, NULL before parsing
  pos,        \* the parser's cursor into argv[1]
  nread,      \* how many lines getline() has returned
  str,        \* the line being matched, as getline() returned it
  before,     \* the before array handed to pat->match for str
  after,      \* the after array as pat->match left it
  printed,    \* whether str was written to stdout
  out,        \* the lines written to stdout
  calls,      \* every pat->match call main() has made: line, before, after
  allocated   \* how many malloc'ed before arrays have not been freed

vars == <<argc, argv1, fileOpens, pc, err, status, pat, pos, nread, str,
          before, after, printed, out, calls, allocated>>

NoMarks == [i \in {} |-> FALSE]

Init ==
  /\ argc \in 1..4
  /\ argv1 \in Patterns
  /\ fileOpens \in BOOLEAN
  /\ (argc # TWO_ARGS => fileOpens)
  /\ pc = "args"
  /\ err = "none"
  /\ status = "running"
  /\ pat = NULL
  /\ pos = 0
  /\ nread = 0
  /\ str = <<>>
  /\ before = NoMarks
  /\ after = NoMarks
  /\ printed = FALSE
  /\ out = <<>>
  /\ calls = {}
  /\ allocated = 0

\* exit(EXIT_FAILURE) after a message on stderr.
Fail(msg) ==
  /\ err' = msg
  /\ status' = "EXIT_FAILURE"
  /\ pc' = "exit"

\* CheckArgs with the pattern parsed first: an invalid pattern is reported
\* before the argument count and the input file are looked at.
CheckArgsAfterParse ==
  /\ pc = "args"
  /\ IF ~parseAlternation(argv1, 0).ok THEN Fail("Invalid pattern")
     ELSE IF argc = ONE_ARG THEN pc' = "parse" /\ UNCHANGED <<err, status>>
     ELSE IF argc = TWO_ARGS
          THEN IF fileOpens THEN pc' = "parse" /\ UNCHANGED <<err, status>>
               ELSE Fail("Can't open input file")
          ELSE Fail("usage")
  /\ UNCHANGED <<argc, argv1, fileOpens, pat, pos, nread, str, before, after,
                 printed, out, calls, allocated>>

\* main, lines 206-217: the argument count, then the input file.
CheckArgs ==
  /\ pc = "args"
  /\ IF argc = ONE_ARG THEN pc' = "parse" /\ UNCHANGED <<err, status>>
     ELSE IF argc = TWO_ARGS
          THEN IF fileOpens THEN pc' = "parse" /\ UNCHANGED <<err, status>>
               ELSE Fail("Can't open input file")
          ELSE Fail("usage")
  /\ UNCHANGED <<argc, argv1, fileOpens, pat, pos, nread, str, before, after,
                 printed, out, calls, allocated>>

\* main, lines 220-221: pat = parseAlternation(argv[1], &pos); whatever
\* parseAlternation returns is used, wherever the cursor stopped.
ParsePattern ==
  /\ pc = "parse"
  /\ LET r == parseAlternation(argv1, 0)
     IN  /\ pos' = r.pos
         /\ pat' = r.pat
         /\ IF r.ok THEN pc' = "getline" /\ UNCHANGED <<err, status>>
            ELSE Fail("Invalid pattern")
  /\ UNCHANGED <<argc, argv1, fileOpens, nread, str, before, after, printed,
                 out, calls, allocated>>

\* The next line of the input can only follow a terminated line.
MoreInput == nread < MaxLines /\ (nread > 0 => str[Len(str)] = NL)

\* main, lines 226-242, for the lines getline() can return: before is
\* malloc'ed with len + 1 entries of which the first len are set, after is
\* a stack array of AfterEntries entries that nothing initializes, and
\* pat->match is called.  before is not freed, here or later.  A call that
\* writes past the end of after has undefined behaviour: the run is
\* followed no further.  after keeps the entries the call can reach.
MatchLineOf(lines) ==
  /\ pc = "getline"
  /\ MoreInput
  /\ \E line \in lines :
       LET len == strlen(line)
           top == IF len < AfterEntries THEN len ELSE AfterEntries - 1
       IN  \E last \in BOOLEAN :
             LET b == [i \in 0..len |-> IF i < len THEN TRUE ELSE last]
             IN  /\ str' = line
                 /\ before' = b
                 /\ IF writesBeyond(pat, len, line, {b}, BoolArrays(len), AfterEntries)
                    THEN /\ pc' = "undefined"
                         /\ UNCHANGED <<after, calls>>
                    ELSE /\ pc' = "report"
                         /\ \E a \in match(pat, len, line, {b}, BoolArrays(len)) :
                              LET a8 == [i \in 0..top |-> a[i]]
                              IN  /\ after' = a8
                                  /\ calls' = calls \cup
                                       {[str |-> line, before |-> b, after |-> a8]}
  /\ nread' = nread + 1
  /\ allocated' = allocated + 1
  /\ UNCHANGED <<argc, argv1, fileOpens, err, status, pat, pos, printed, out>>

MatchLine == MatchLineOf(TerminatedLines \cup UnterminatedLines)

\* main, lines 249-251: if (str != NULL && isMatch(str, after)) printf("%s", str);
Report ==
  /\ pc = "report"
  /\ printed' = isMatch(str, after)
  /\ out' = IF isMatch(str, after) THEN Append(out, str) ELSE out
  /\ pc' = "getline"
  /\ UNCHANGED <<argc, argv1, fileOpens, err, status, pat, pos, nread, str,
                 before, after, calls, allocated>>

\* main, lines 226 and 255-257: getline() finds no more input; the pattern
\* is destroyed and main returns EXIT_SUCCESS.
Finish ==
  /\ pc = "getline"
  /\ status' = "EXIT_SUCCESS"
  /\ pc' = "exit"
  /\ UNCHANGED <<argc, argv1, fileOpens, err, pat, pos, nread, str, before,
                 after, printed, out, calls, allocated>>

Next == CheckArgs \/ ParsePattern \/ MatchLine \/ Report \/ Finish

Spec == Init /\ [][Next]_vars

\* The same program on an input whose only line is a long one.
MatchLongLine == MatchLineOf(LongLines)

LongNext == CheckArgs \/ ParsePattern \/ MatchLongLine \/ Report \/ Finish

LongSpec == Init /\ [][LongNext]_vars

(* ------------------- one match call on its own ------------------------- *)
\* pat->match is a function of the pattern, the string and the two arrays
\* (pattern.h): MatchSpec calls it once, for any small tree, any string of
\* up to MaxMatchLen characters, any before array and any contents of the
\* after array.  calls keeps what the after array held when the call was
\* made.
Leaves ==
  {makeSymbolPattern("a"), makeSymbolPattern("b"), makeDotPattern("."),
   makeStartAnchorPattern("^"), makeEndAnchorPattern("$")}

Trees ==
  Leaves
    \cup {makeConcatenationPattern(p1, p2) : p1 \in Leaves, p2 \in Leaves}
    \cup {makeAlternationPattern(p1, p2) : p1 \in Leaves, p2 \in Leaves}
    \cup {makeStarPattern(p) : p \in Leaves}
    \cup {makePlusPattern(p) : p \in Leaves}
    \cup {makeQMarkPattern(p) : p \in Leaves}

MatchStrings == SeqsUpTo(LineChars, MaxMatchLen)

MatchInit ==
  /\ argc = ONE_ARG
  /\ argv1 = <<>>
  /\ fileOpens = TRUE
  /\ pc = "call"
  /\ err = "none"
  /\ status = "running"
  /\ pat \in Trees
  /\ pos = 0
  /\ nread = 0
  /\ str \in MatchStrings
  /\ before \in BoolArrays(strlen(str))
  /\ after \in BoolArrays(strlen(str))
  /\ printed = FALSE
  /\ out = <<>>
  /\ calls = {}
  /\ allocated = 0

\* pat->match(pat, strlen(str), str, before, after)
MatchCall ==
  /\ pc = "call"
  /\ \E a \in match(pat, strlen(str), str, {before}, {after}) :
       /\ after' = a
       /\ calls' = {[str |-> str, before |-> before, buffer |-> after, after |-> a]}
  /\ pc' = "returned"
  /\ UNCHANGED <<argc, argv1, fileOpens, err, status, pat, pos, nread, str,
                 before, printed, out, allocated>>

MatchNext == MatchCall

MatchSpec == MatchInit /\ [][MatchNext]_vars

(* ------------------------------- claims -------------------------------- *)
\* The argument count is right and the input could be opened.
ArgsOK == argc = ONE_ARG \/ (argc = TWO_ARGS /\ fileOpens)

\* main() has got past parseAlternation.
ParseDone == ArgsOK /\ pc \notin {"args", "parse"}

\* The pattern was accepted: main() went on to the line loop.
Accepted == ParseDone /\ err # "Invalid pattern"

\* The verdict on the line str has been given.
Reported == pc = "getline" /\ nread > 0

\* C1: for every pattern the parser accepts and every input line, the line
\* is printed if and only if it contains a substring (possibly empty, at
\* any start position) that the pattern matches under the documented
\* semantics.
C1_PrintedIffContainsMatch ==
  Reported => (printed <=> DocContainsMatch(pat, Content(str)))

\* C2: when the pattern string is not a valid pattern, the program reports
\* 'Invalid pattern' and ends with a failure status before any input line
\* is read, matched or printed.
C2_InvalidPatternNeverMatched ==
  (ArgsOK /\ ~DocValid(argv1)) =>
    /\ nread = 0 /\ calls = {} /\ out = <<>>
    /\ pc = "exit" => (err = "Invalid pattern" /\ status = "EXIT_FAILURE")

\* C3: the argument count and the input file are checked before the
\* pattern is parsed: a run with a wrong argument count ends with the usage
\* error, a run whose input file cannot be opened ends with the 'Can't open
\* input file' error whatever the pattern is, and in neither run is the
\* pattern parsed or 'Invalid pattern' reported.
C3_ArgsAndFileBeforeParse ==
  /\ (argc \notin {ONE_ARG, TWO_ARGS} /\ pc = "exit") =>
       (err = "usage" /\ status = "EXIT_FAILURE")
  /\ (argc = TWO_ARGS /\ ~fileOpens /\ pc = "exit") =>
       (err = "Can't open input file" /\ status = "EXIT_FAILURE")
  /\ ~ArgsOK => (pc \in {"args", "exit"} /\ pat = NULL /\ pos = 0
                 /\ err # "Invalid pattern")
  /\ pc \notin {"args", "exit"} => ArgsOK

\* A run that ended on the unopenable file although the pattern is one the
\* parser rejects.
C3_Witness ==
  /\ pc = "exit" /\ argc = TWO_ARGS /\ ~fileOpens
  /\ ~parseAlternation(argv1, 0).ok
  /\ err = "Can't open input file"

\* The tree of an atomic pattern wrapped once per repetition operator, in
\* reading order.
RECURSIVE Wrapped(_, _)
Wrapped(p, ops) ==
  IF ops = <<>> THEN p
  ELSE Wrapped(CASE Head(ops) = "*" -> makeStarPattern(p)
                 [] Head(ops) = "+" -> makePlusPattern(p)
                 [] Head(ops) = "?" -> makeQMarkPattern(p),
               Tail(ops))

\* str is a one-character atomic pattern followed by repetition operators.
IsRepetitionForm(s) ==
  /\ Len(s) >= 2
  /\ parseAtomicPattern(s, 0).ok
  /\ \A i \in 2..Len(s) : s[i] \in RepetitionOps

\* C4: an atomic pattern followed by any number of the repetition operators
\* is accepted and parses to the atom wrapped once per operator in reading
\* order: 'a*' to Star(Symbol a), 'a**' to Star(Star(Symbol a)).
C4_RepetitionParsed ==
  (ParseDone /\ IsRepetitionForm(argv1)) =>
    /\ err # "Invalid pattern"
    /\ pat = Wrapped(parseAtomicPattern(argv1, 0).pat, Tail(argv1))

\* s is '[' ... ']' with no ']' and no newline in between.
IsClassForm(s) ==
  /\ Len(s) >= 2
  /\ s[1] = "["
  /\ s[Len(s)] = "]"
  /\ \A i \in 2..(Len(s) - 1) : s[i] \notin {"]", NL}

\* s starts a class that no ']' closes.
IsOpenClass(s) == Len(s) >= 1 /\ s[1] = "[" /\ DocClassEnd(s, 1) = -1

\* C5: '[' followed by characters other than ']' and newline followed by
\* ']' is accepted and gives a CharClass node holding exactly the listed
\* characters; a class with no closing ']' is an invalid pattern.
C5_CharClassParsed ==
  /\ (ParseDone /\ IsClassForm(argv1)) =>
       /\ err # "Invalid pattern"
       /\ pat = [tag |-> "CharClass",
                 set |-> {argv1[i] : i \in 2..(Len(argv1) - 1)}]
  /\ (ParseDone /\ IsOpenClass(argv1)) => err = "Invalid pattern"

\* s is '(' inner ')' where inner is an alternation the parser takes whole.
IsParenForm(s) ==
  /\ Len(s) >= 3
  /\ s[1] = "("
  /\ s[Len(s)] = ")"
  /\ LET inner == SubSeq(s, 2, Len(s) - 1)
     IN  parseAlternation(inner, 0).ok /\ parseAlternation(inner, 0).pos = Len(inner)

\* s opens a parenthesis around an alternation and never closes it.
IsOpenParen(s) ==
  /\ Len(s) >= 2
  /\ s[1] = "("
  /\ parseAlternation(Tail(s), 0).ok /\ parseAlternation(Tail(s), 0).pos = Len(s) - 1

\* C6: '(' followed by an alternation followed by ')' is accepted and
\* gives the tree of the enclosed alternation; a missing ')' is an invalid
\* pattern.
C6_ParenthesesParsed ==
  /\ (ParseDone /\ IsParenForm(argv1)) =>
       /\ err # "Invalid pattern"
       /\ pat = parseAlternation(SubSeq(argv1, 2, Len(argv1) - 1), 0).pat
  /\ (ParseDone /\ IsOpenParen(argv1)) => err = "Invalid pattern"

\* C7: no pattern is accepted with input left unconsumed after
\* parseAlternation returns: an accepted pattern was read to its end.
C7_NoTrailingInputAccepted ==
  Accepted => pos = Len(argv1)

\* C8: the before array handed to match for a line has exactly n + 1
\* entries, all true, n being the length of the line without its terminator.
C8_BeforeAllTrue ==
  pc = "report" =>
    /\ DOMAIN before = 0..Len(Content(str))
    /\ \A i \in DOMAIN before : before[i]

\* C9: the verdict for a line is true if and only if one of the entries
\* 0..n of after is true, n being the length of the line without its
\* terminator; a line whose only marked location is n is reported.
C9_VerdictIffAnyMark ==
  Reported => (printed <=> \E i \in 0..Len(Content(str)) : after[i])

\* C10: match is deterministic: two calls with the same tree, line and
\* before array leave the same after array, whatever the after buffer held
\* and whatever lines were matched earlier.
C10_MatchDeterministic ==
  \A c1, c2 \in calls :
    (c1.str = c2.str /\ c1.before = c2.before) => c1.after = c2.after

\* The match call of MatchSpec has returned.
Returned == pc = "returned"

\* The locations an array marks.
Marks(a) == {i \in DOMAIN a : a[i]}

\* C11: alternation is commutative in effect: from the same before array,
\* what Alternation(p1, p2) leaves in after is what Alternation(p2, p1)
\* leaves, at every location 0..n.
C11_AlternationCommutes ==
  (Returned /\ pat.tag = "Alternation") =>
    after \in match(makeAlternationPattern(pat.p2, pat.p1), strlen(str), str,
                    {before}, BoolArrays(strlen(str)))

\* C12: Plus(p) is Concatenation(p, Star(p)): both leave the same after
\* array, which marks the locations reached by one or more occurrences of
\* p ('ab+' on 'abbb': after each of the three b's).
C12_PlusIsOneThenStar ==
  (Returned /\ pat.tag = "Plus") =>
    /\ \A c \in calls :
         after \in match(makeConcatenationPattern(pat.p, makeStarPattern(pat.p)),
                         strlen(str), str, {before}, {c.buffer})
    /\ Marks(after) = DocReach(pat, str, Marks(before))

\* C13: Alternation(p1, p2) leaves the elementwise union of what p1 and p2
\* leave from the same before array: after[i] iff p1's or p2's result
\* marks i; neither branch is skipped or overwritten.
C13_AlternationIsUnion ==
  (Returned /\ pat.tag = "Alternation") =>
    \E r1 \in match(pat.p1, strlen(str), str, {before}, BoolArrays(strlen(str))),
       r2 \in match(pat.p2, strlen(str), str, {before}, BoolArrays(strlen(str))) :
      \A i \in 0..strlen(str) : after[i] <=> (r1[i] \/ r2[i])

\* C14: Star(p) leaves the closure of before under zero or more
\* applications of p: the smallest set that holds before and what p reaches
\* from it; every location of before is in it.
C14_StarIsClosure ==
  (Returned /\ pat.tag = "Star") =>
    /\ Marks(after) = DocClosure(pat.p, str, Marks(before))
    /\ Marks(before) \subseteq Marks(after)

\* C15: StartAnchor leaves after[0] = before[0] and after[i] false for
\* every i in 1..n.
C15_StartAnchorAbsolute ==
  (Returned /\ pat.tag = "StartAnchor") =>
    /\ after[0] = before[0]
    /\ \A i \in 1..strlen(str) : ~after[i]

\* C16: EndAnchor leaves after[n] = before[n] and after[i] false for every
\* i in 0..n-1, for a string of any length n, 0 included.
C16_EndAnchorAbsolute ==
  (Returned /\ pat.tag = "EndAnchor") =>
    /\ after[strlen(str)] = before[strlen(str)]
    /\ \A i \in 0..(strlen(str) - 1) : ~after[i]

\* C17: Symbol(c) writes all n + 1 entries of after: after[0] is false and,
\* for every i in 0..n-1, after[i + 1] is true iff before[i] is true and
\* the string's character i is c.
C17_SymbolShiftsByOne ==
  (Returned /\ pat.tag = "Symbol") =>
    /\ DOMAIN after = 0..strlen(str)
    /\ after[0] = FALSE
    /\ \A i \in 0..(strlen(str) - 1) :
         after[i + 1] <=> (before[i] /\ CharAt(str, i) = pat.sym)

\* A Symbol call into an array whose first entry was set, that moved one
\* mark forward and dropped another.
C17_Witness ==
  /\ Returned /\ pat.tag = "Symbol"
  /\ \E c \in calls : c.buffer[0]
  /\ \E i \in 0..(strlen(str) - 1) : before[i] /\ after[i + 1]
  /\ \E i \in 0..(strlen(str) - 1) : before[i] /\ ~after[i + 1]


\* C18: for every line, the before and after arrays handed to match have
\* len + 1 entries and no match call reads or writes outside them.
C18_BuffersHoldEveryIndex ==
  pc \in {"report", "undefined"} =>
    /\ DOMAIN before = 0..strlen(str)
    /\ strlen(str) + 1 <= AfterEntries
    /\ pc # "undefined"

\* C19: no before or after array allocated for a line is still allocated
\* when the next line is read or when the program ends.
C19_BuffersReleased ==
  pc \in {"getline", "exit"} => allocated = 0

=========================================================================
